---------------------------- MODULE Spec2Model ----------------------------
(***************************************************************************)
(* A model of lttngpack (src/lttngpack/lttngpack.py): the distribution     *)
(* builders, the aggregator distros() and the report's column lookup.      *)
(*                                                                         *)
(* Python strings are sequences of one-character strings, so that the      *)
(* regular expressions of the builders are matched character by character. *)
(* The upstream services (Repology, the Buildroot git, the OpenEmbedded    *)
(* cgit) are state the run reads and never writes.                         *)
(***************************************************************************)
EXTENDS Integers, Sequences, FiniteSets, TLC

(***************************************************************************)
(* Bounds of the model.                                                    *)
(***************************************************************************)
\* The longest record list Repology answers with (three projects together).
MaxRecords == 3
\* The number of Buildroot branches the model tracks one by one; the loop
\* itself has no bound.
MaxProbes == 5
\* The longest <option> list of the OpenEmbedded branch selector.
MaxOptions == 3

(***************************************************************************)
(* Strings.                                                                *)
(***************************************************************************)
\* The characters of the model in code-point order (Python compares str
\* values by code point).
Ascii ==
  <<" ", "(", ")", "-", ".", "0", "1", "2", "3", "4", "5", "6", "7", "8", "9", "A", "B", "C", "D", "E", "F", "G", "H", "I", "J", "K", "L", "M", "N", "O", "P", "Q", "R", "S", "T", "U", "V", "W", "X", "Y", "Z", "_", "a", "b", "c", "d", "e", "f", "g", "h", "i", "j", "k", "l", "m", "n", "o", "p", "q", "r", "s", "t", "u", "v", "w", "x", "y", "z">>

Uppers == <<"A", "B", "C", "D", "E", "F", "G", "H", "I", "J", "K", "L", "M", "N", "O", "P", "Q", "R", "S", "T", "U", "V", "W", "X", "Y", "Z">>

Lowers == <<"a", "b", "c", "d", "e", "f", "g", "h", "i", "j", "k", "l", "m", "n", "o", "p", "q", "r", "s", "t", "u", "v", "w", "x", "y", "z">>

Digits == <<"0", "1", "2", "3", "4", "5", "6", "7", "8", "9">>

Ord(c) == CHOOSE i \in 1..Len(Ascii) : Ascii[i] = c

IsDigit(c) == \E i \in 1..Len(Digits) : Digits[i] = c

\* str.lower() on one character.
LowerChar(c) ==
  IF \E i \in 1..Len(Uppers) : Uppers[i] = c
  THEN Lowers[CHOOSE i \in 1..Len(Uppers) : Uppers[i] = c]
  ELSE c

\* str.lower()
Lower(s) == [i \in 1..Len(s) |-> LowerChar(s[i])]

\* s < t for two str values: the first differing code point decides, and a
\* proper prefix is smaller.
StrLess(s, t) ==
  \E i \in 1..(Len(t)) :
    /\ \A j \in 1..(i - 1) : j <= Len(s) /\ s[j] = t[j]
    /\ \/ i = Len(s) + 1
       \/ i <= Len(s) /\ Ord(s[i]) < Ord(t[i])

\* The return value None where a str is expected, and where an object is.
NoneStr == <<"None">>

None == [none |-> TRUE]

\* A call that returns v, and a call an exception leaves.
Ok(v) == [raised |-> FALSE, value |-> v]

Raised == [raised |-> TRUE]

\* packaging.version.InvalidVersion, where a str is expected.
RaiseStr == <<"raise">>

(***************************************************************************)
(* Regular expressions (module re).  A pattern is a sequence of atoms; an  *)
(* atom is a character class with a quantifier.  The class "any" is '.',   *)
(* "digit" is '\d', and a one-character string is that literal.  The       *)
(* strings of the model hold no line break, which '.' would refuse.        *)
(***************************************************************************)
InClass(ch, cls) ==
  \/ cls = "any"
  \/ cls = "digit" /\ IsDigit(ch)
  \/ cls = ch

Lit(s) == [i \in 1..Len(s) |-> [cls |-> s[i], q |-> "1"]]

One(cls) == <<[cls |-> cls, q |-> "1"]>>

Star(cls) == <<[cls |-> cls, q |-> "*"]>>

Plus(cls) == <<[cls |-> cls, q |-> "+"]>>

\* The positions at which atom a can end when it starts at position i of s.
Spans(a, s, i) ==
  IF a.q = "1"
  THEN IF i <= Len(s) /\ InClass(s[i], a.cls) THEN {i + 1} ELSE {}
  ELSE {j \in (IF a.q = "+" THEN i + 1 ELSE i)..(Len(s) + 1) :
          \A t \in i..(j - 1) : InClass(s[t], a.cls)}

\* Every way the atoms k.. of pat match s from position i: the end position
\* of each atom.
RECURSIVE Matches(_, _, _, _)
Matches(pat, k, s, i) ==
  IF k > Len(pat)
  THEN {<<>>}
  ELSE UNION {{<<j>> \o r : r \in Matches(pat, k + 1, s, j)} :
                j \in Spans(pat[k], s, i)}

\* b is tried before c by a backtracking matcher with greedy quantifiers.
Preferred(b, c) ==
  \/ b = c
  \/ \E i \in 1..Len(b) :
       /\ \A j \in 1..(i - 1) : b[j] = c[j]
       /\ b[i] > c[i]

\* The match object None: no atom ends at position 0.
NoMatch == <<0>>

\* re.match(pat, s): anchored at the start of s, not at its end.  The match
\* object is the end position of each atom.
re_match(pat, s) ==
  LET all == Matches(pat, 1, s, 1)
  IN IF all = {} THEN NoMatch
     ELSE CHOOSE b \in all : \A c \in all : Preferred(b, c)

\* re.search(pat, s) is not None, for a pattern without groups.
re_search(pat, s) ==
  \E i \in 1..(Len(s) + 1) : Matches(pat, 1, s, i) # {}

\* The text atom k of the pattern matched: m.group(n) for the group that
\* is atom k.
Group(s, m, k) ==
  SubSeq(s, IF k = 1 THEN 1 ELSE m[k - 1], m[k] - 1)

(***************************************************************************)
(* packaging.version.parse and str() of its result, for the version        *)
(* strings made of digits, dots, a leading "v" and characters no version   *)
(* holds.  A Version object is modelled by its str(): the release numbers  *)
(* without their leading zeros, joined by dots, and no "v".                *)
(***************************************************************************)
\* s is a release: numbers separated by single dots.
IsRelease(s) ==
  /\ Len(s) > 0
  /\ \A i \in 1..Len(s) : IsDigit(s[i]) \/ s[i] = "."
  /\ s[1] # "." /\ s[Len(s)] # "."
  /\ \A i \in 1..(Len(s) - 1) : ~(s[i] = "." /\ s[i + 1] = ".")

\* The character at position i of the release s is printed: a dot, or a
\* digit of a number that is not one of its leading zeros.
Printed(s, i) ==
  \/ s[i] # "0"
  \/ i = Len(s)
  \/ s[i + 1] = "."
  \/ \E j \in 1..(i - 1) :
       IsDigit(s[j]) /\ s[j] # "0" /\ \A t \in j..i : s[t] # "."

\* The function is applied to the value of s, computed once.
ParseVersion(s) ==
  LET parse[t \in {s}] ==
        LET body == IF Len(t) > 0 /\ t[1] = "v" THEN Tail(t) ELSE t
            kept == {i \in 1..Len(body) : Printed(body, i)}
        IN IF IsRelease(body)
           THEN [k \in 1..Cardinality(kept) |->
                   body[CHOOSE i \in kept :
                          Cardinality({j \in kept : j < i}) = k - 1]]
           ELSE RaiseStr
  IN parse[s]

Range(s) == {s[i] : i \in 1..Len(s)}

(***************************************************************************)
(* The data model: _Distro, _DistroVersion, _Pkg.                          *)
(***************************************************************************)
Distro(name, versions) == [name |-> name, versions |-> versions]

DistroVersion(version) == [version |-> version, pkgs |-> <<>>]

Pkg(name, version) == [name |-> name, version |-> version]

(***************************************************************************)
(* State.                                                                  *)
(***************************************************************************)
VARIABLES
  pc,              \* the statement of distros() / __main__ that runs next
  repology,        \* what repology.org answers for the three projects
  buildroot_git,   \* what git.buildroot.net serves
  openembedded,    \* what git.openembedded.org serves
  repology_repos,  \* distros(): the combined record list
  distros,         \* distros(): the list of _Distro built so far
  yr,              \* _buildroot_distro(): the year of the next candidate
  month,           \* _buildroot_distro(): the month of the next candidate
  distro_versions, \* the list the running probe builder fills
  valid_versions,  \* _yocto_distro(): the identifiers that passed the denylist
  result,          \* what distros() returned
  table,           \* the rows __main__ added to the table
  invoked,         \* log: the builders called, in call order
  fetched          \* log: the GET requests of the probe builders, in order

vars == <<pc, repology, buildroot_git, openembedded, repology_repos, distros,
          yr, month, distro_versions, valid_versions, result, table, invoked,
          fetched>>

upstream == <<repology, buildroot_git, openembedded>>

(***************************************************************************)
(* Record-filtering builders.                                              *)
(***************************************************************************)
\* The body of the loop over the records, for a record whose label
\* repo_version the builder's repo_version() returned.
RepoLoopBodyAlwaysNew(distro_versions_, repo_version, repo) ==
  IF repo_version = NoneStr
  THEN Ok(distro_versions_)
  ELSE LET version == ParseVersion(repo.version)
           created == Append(distro_versions_, DistroVersion(repo_version))
       IN IF version = RaiseStr
          THEN Raised
          ELSE Ok([created EXCEPT ![Len(created)].pkgs =
                     Append(@, Pkg(repo.visiblename, version))])

RepoLoopBodySkipInvalid(distro_versions_, repo_version, repo) ==
  IF repo_version = NoneStr \/ ParseVersion(repo.version) = RaiseStr
  THEN Ok(distro_versions_)
  ELSE LET found   == {i \in 1..Len(distro_versions_) :
                         distro_versions_[i].version = repo_version}
           created == IF found = {}
                      THEN Append(distro_versions_, DistroVersion(repo_version))
                      ELSE distro_versions_
           at      == IF found = {}
                      THEN Len(created)
                      ELSE CHOOSE i \in found : \A j \in found : j <= i
       IN Ok([created EXCEPT ![at].pkgs =
                Append(@, Pkg(repo.visiblename, ParseVersion(repo.version)))])

RepoLoopBody(distro_versions_, repo_version, repo) ==
  IF repo_version = NoneStr
  THEN Ok(distro_versions_)
  ELSE LET found   == {i \in 1..Len(distro_versions_) :
                         distro_versions_[i].version = repo_version}
           \* the scan keeps the last entry with the label
           created == IF found = {}
                      THEN Append(distro_versions_, DistroVersion(repo_version))
                      ELSE distro_versions_
           at      == IF found = {}
                      THEN Len(created)
                      ELSE CHOOSE i \in found : \A j \in found : j <= i
           version == ParseVersion(repo.version)
       IN IF version = RaiseStr
          THEN Raised
          ELSE Ok([created EXCEPT ![at].pkgs =
                     Append(@, Pkg(repo.visiblename, version))])

\* _distro_versions_from_repology_repos: the list of buckets, or the
\* exception of the first record whose version does not parse.  The
\* builder's repo_version is passed as a function of the records.
distro_versions_from_repology_repos(repology_repos_, repo_version_func) ==
  LET loop[i \in 0..Len(repology_repos_)] ==
        IF i = 0
        THEN Ok(<<>>)
        ELSE IF loop[i - 1].raised
             THEN Raised
             ELSE RepoLoopBody(loop[i - 1].value,
                               repo_version_func[repology_repos_[i]],
                               repology_repos_[i])
  IN loop[Len(repology_repos_)]

\* r'alpine_(\d+)_(\d+)'
AlpineRe == Lit(<<"a", "l", "p", "i", "n", "e", "_">>) \o Plus("digit") \o Lit(<<"_">>) \o Plus("digit")

alpine_repo_version(repo) ==
  LET m == re_match(AlpineRe, repo.repo)
  IN IF m # NoMatch
     THEN Group(repo.repo, m, 8) \o <<".">> \o Group(repo.repo, m, 10)
     ELSE NoneStr

arch_repo_version(repo) ==
  IF repo.repo = <<"a", "r", "c", "h">> THEN <<"(", "r", "o", "l", "l", "i", "n", "g", ")">> ELSE NoneStr

\* r'debian_(.+)'
DebianRe == Lit(<<"d", "e", "b", "i", "a", "n", "_">>) \o Plus("any")

debian_repo_version_with_sid(repo) ==
  LET m == re_match(DebianRe, repo.repo)
  IN IF m # NoMatch THEN Group(repo.repo, m, 8) ELSE NoneStr

debian_repo_version(repo) ==
  LET m == re_match(DebianRe, repo.repo)
  IN IF m # NoMatch /\ Group(repo.repo, m, 8) # <<"s", "i", "d">>
     THEN Group(repo.repo, m, 8)
     ELSE NoneStr

\* r'fedora_(\d+)'
FedoraRe == Lit(<<"f", "e", "d", "o", "r", "a", "_">>) \o Plus("digit")

fedora_repo_version(repo) ==
  LET m == re_match(FedoraRe, repo.repo)
  IN IF m # NoMatch THEN Group(repo.repo, m, 8) ELSE NoneStr

\* r'opensuse_leap_(\d+)_(\d+)'
OpensuseRe ==
  Lit(<<"o", "p", "e", "n", "s", "u", "s", "e", "_", "l", "e", "a", "p", "_">>) \o Plus("digit") \o Lit(<<"_">>) \o Plus("digit")

opensuse_repo_version(repo) ==
  LET m == re_match(OpensuseRe, repo.repo)
  IN IF m # NoMatch
     THEN Group(repo.repo, m, 15) \o <<".">> \o Group(repo.repo, m, 17)
     ELSE NoneStr

\* r'ubuntu_(\d+)_(\d+)'
UbuntuRe == Lit(<<"u", "b", "u", "n", "t", "u", "_">>) \o Plus("digit") \o Lit(<<"_">>) \o Plus("digit")

ubuntu_repo_version(repo) ==
  LET m == re_match(UbuntuRe, repo.repo)
  IN IF m # NoMatch
     THEN Group(repo.repo, m, 8) \o <<".">> \o Group(repo.repo, m, 10)
     ELSE NoneStr

\* A builder's return value: the _Distro, or the exception of its fold.
DistroOf(name, versions) ==
  IF versions.raised THEN Raised ELSE Ok(Distro(name, versions.value))

alpine_distro(repology_repos_) ==
  DistroOf(<<"A", "l", "p", "i", "n", "e", " ", "L", "i", "n", "u", "x">>,
           distro_versions_from_repology_repos(
             repology_repos_,
             [repo \in Range(repology_repos_) |-> alpine_repo_version(repo)]))

arch_distro(repology_repos_) ==
  DistroOf(<<"A", "r", "c", "h", " ", "L", "i", "n", "u", "x">>,
           distro_versions_from_repology_repos(
             repology_repos_,
             [repo \in Range(repology_repos_) |-> arch_repo_version(repo)]))

debian_distro(repology_repos_) ==
  DistroOf(<<"D", "e", "b", "i", "a", "n">>,
           distro_versions_from_repology_repos(
             repology_repos_,
             [repo \in Range(repology_repos_) |-> debian_repo_version(repo)]))

fedora_distro(repology_repos_) ==
  DistroOf(<<"F", "e", "d", "o", "r", "a">>,
           distro_versions_from_repology_repos(
             repology_repos_,
             [repo \in Range(repology_repos_) |-> fedora_repo_version(repo)]))

opensuse_distro(repology_repos_) ==
  DistroOf(<<"o", "p", "e", "n", "S", "U", "S", "E", " ", "L", "e", "a", "p">>,
           distro_versions_from_repology_repos(
             repology_repos_,
             [repo \in Range(repology_repos_) |-> opensuse_repo_version(repo)]))

ubuntu_distro(repology_repos_) ==
  DistroOf(<<"U", "b", "u", "n", "t", "u">>,
           distro_versions_from_repology_repos(
             repology_repos_,
             [repo \in Range(repology_repos_) |-> ubuntu_repo_version(repo)]))

(***************************************************************************)
(* The Buildroot builder: one branch per quarter, probed until the         *)
(* lttng-tools recipe of a branch does not exist.                          *)
(***************************************************************************)
\* The quarterly branches git.buildroot.net has, oldest first; buildroot_git
\* says what the first of them serve.
BranchNames ==
  << <<"2", "0", "1", "9", ".", "0", "2">>, <<"2", "0", "1", "9", ".", "0", "5">>, <<"2", "0", "1", "9", ".", "0", "8">>, <<"2", "0", "1", "9", ".", "1", "1">>,
     <<"2", "0", "2", "0", ".", "0", "2">>, <<"2", "0", "2", "0", ".", "0", "5">>, <<"2", "0", "2", "0", ".", "0", "8">>, <<"2", "0", "2", "0", ".", "1", "1">> >>

BuildrootPkgNames == {<<"l", "t", "t", "n", "g", "-", "t", "o", "o", "l", "s">>, <<"l", "t", "t", "n", "g", "-", "l", "i", "b", "u", "s", "t">>, <<"l", "t", "t", "n", "g", "-", "m", "o", "d", "u", "l", "e", "s">>}

\* requests.get('.../package/{name}/{name}.mk?h={br_version}.x')
BuildrootGet(name, br_version) ==
  LET known == {i \in 1..Len(buildroot_git.branches) :
                  i <= Len(BranchNames) /\ BranchNames[i] = br_version}
  IN IF known # {}
     THEN buildroot_git.branches[CHOOSE i \in known : TRUE][name]
     ELSE buildroot_git.elsewhere

\* pkg(name) of distro_version(br_version): None for a branch that does not
\* exist, the exception when the GET fails, when the version line is not
\* found (m is None) or when its value is no version.
buildroot_pkg(name, br_version) ==
  LET mk == BuildrootGet(name, br_version)
  IN IF mk.status = "error" THEN Raised
     ELSE IF mk.invalid_branch THEN Ok(None)
     ELSE IF mk.version_field = NoneStr THEN Raised
     ELSE IF ParseVersion(mk.version_field) = RaiseStr THEN Raised
     ELSE Ok(Pkg(name, ParseVersion(mk.version_field)))

buildroot_distro_version_present_only(br_version) ==
  LET lttng_tools_pkg   == buildroot_pkg(<<"l", "t", "t", "n", "g", "-", "t", "o", "o", "l", "s">>, br_version)
      lttng_ust_pkg     == buildroot_pkg(<<"l", "t", "t", "n", "g", "-", "l", "i", "b", "u", "s", "t">>, br_version)
      lttng_modules_pkg == buildroot_pkg(<<"l", "t", "t", "n", "g", "-", "m", "o", "d", "u", "l", "e", "s">>, br_version)
  IN IF lttng_tools_pkg.raised THEN Raised
     ELSE IF lttng_tools_pkg.value = None THEN Ok(None)
     ELSE IF lttng_ust_pkg.raised \/ lttng_modules_pkg.raised THEN Raised
     ELSE Ok([version |-> br_version,
              pkgs |-> SelectSeq(<<lttng_tools_pkg.value, lttng_ust_pkg.value,
                                   lttng_modules_pkg.value>>,
                                 LAMBDA p : p # None)])

\* distro_version(br_version) of _buildroot_distro
buildroot_distro_version(br_version) ==
  LET lttng_tools_pkg   == buildroot_pkg(<<"l", "t", "t", "n", "g", "-", "t", "o", "o", "l", "s">>, br_version)
      lttng_ust_pkg     == buildroot_pkg(<<"l", "t", "t", "n", "g", "-", "l", "i", "b", "u", "s", "t">>, br_version)
      lttng_modules_pkg == buildroot_pkg(<<"l", "t", "t", "n", "g", "-", "m", "o", "d", "u", "l", "e", "s">>, br_version)
  IN IF lttng_tools_pkg.raised THEN Raised
     ELSE IF lttng_tools_pkg.value = None THEN Ok(None)
     ELSE IF lttng_ust_pkg.raised \/ lttng_modules_pkg.raised THEN Raised
     ELSE Ok([version |-> br_version,
              pkgs |-> <<lttng_tools_pkg.value, lttng_ust_pkg.value,
                         lttng_modules_pkg.value>>])

\* The GET requests distro_version(br_version) makes, in order.
buildroot_requests(br_version) ==
  LET lttng_tools_pkg == buildroot_pkg(<<"l", "t", "t", "n", "g", "-", "t", "o", "o", "l", "s">>, br_version)
      lttng_ust_pkg   == buildroot_pkg(<<"l", "t", "t", "n", "g", "-", "l", "i", "b", "u", "s", "t">>, br_version)
  IN <<[name |-> <<"l", "t", "t", "n", "g", "-", "t", "o", "o", "l", "s">>, h |-> br_version]>>
     \o (IF lttng_tools_pkg.raised \/ lttng_tools_pkg.value = None
         THEN <<>>
         ELSE <<[name |-> <<"l", "t", "t", "n", "g", "-", "l", "i", "b", "u", "s", "t">>, h |-> br_version]>>
              \o (IF lttng_ust_pkg.raised
                  THEN <<>>
                  ELSE <<[name |-> <<"l", "t", "t", "n", "g", "-", "m", "o", "d", "u", "l", "e", "s">>, h |-> br_version]>>))

\* The number of decimal digits of n >= 0.
RECURSIVE Width(_)
Width(n) == IF n < 10 THEN 1 ELSE 1 + Width(n \div 10)

\* str(n) for n >= 0
FormatInt(n) ==
  [i \in 1..Width(n) |-> Digits[((n \div (10 ^ (Width(n) - i))) % 10) + 1]]

\* f'{yr}.{month:02}'
FormatBrVersion(yr_, month_) ==
  FormatInt(yr_) \o <<".">> \o
  (IF month_ < 10 THEN <<"0">> ELSE <<>>) \o FormatInt(month_)

NextCandidateSameYear(yr_, month_) ==
  IF month_ + 3 > 11 THEN <<yr_, 2>> ELSE <<yr_, month_ + 3>>

\* The candidate after (yr, month): <<yr, month>> after the loop's update.
NextCandidate(yr_, month_) ==
  IF month_ + 3 > 11 THEN <<yr_ + 1, 2>> ELSE <<yr_, month_ + 3>>

(***************************************************************************)
(* The Yocto builder: the branches the cgit selector lists, less the       *)
(* denylist.                                                               *)
(***************************************************************************)
yocto_version_blacklist ==
  { Star("any") \o Lit(<<"-", "n", "e", "x", "t">>) \o Star("any"),
    One("digit") \o Star("any"),
    Lit(<<"d", "a", "i", "s", "y">>), Lit(<<"d", "a", "n", "n", "y">>), Lit(<<"d", "e", "n", "z", "i", "l">>), Lit(<<"d", "i", "z", "z", "y">>),
    Lit(<<"d", "o", "r", "a">>), Lit(<<"d", "y", "l", "a", "n">>), Lit(<<"f", "i", "d", "o">>), Lit(<<"j", "e", "t", "h", "r", "o">>),
    Lit(<<"k", "r", "o", "g", "o", "t", "h">>), Lit(<<"m", "a", "s", "t", "e", "r">>), Lit(<<"m", "o", "r", "t", "y">>), Lit(<<"p", "y", "r", "o">>),
    Lit(<<"r", "o", "c", "k", "o">>), Lit(<<"s", "u", "m", "o">>) }

yocto_is_valid_by_search(value) ==
  \A blacklist_re \in yocto_version_blacklist : ~re_search(blacklist_re, value)

\* is_valid after the loop over the denylist, for opt['value'] = value
yocto_is_valid(value) ==
  \A blacklist_re \in yocto_version_blacklist :
    re_match(blacklist_re, value) = NoMatch

\* valid_versions for the option values of the selector, in document order
yocto_valid_versions(options) == SelectSeq(options, yocto_is_valid)

\* distro_version(yocto_version) of _yocto_distro: a page field is the
\* text the product's pattern captured, NoneStr when the pattern is not found.
yocto_distro_version(yocto_version) ==
  LET page == openembedded.tree[yocto_version]
      bad(f) == f = NoneStr \/ ParseVersion(f) = RaiseStr
  IN IF page.status = "error" THEN Raised
     ELSE IF bad(page.tools) \/ bad(page.ust) \/ bad(page.modules) THEN Raised
     ELSE Ok([version |-> yocto_version,
              pkgs |-> <<Pkg(<<"l", "t", "t", "n", "g", "-", "t", "o", "o", "l", "s">>, ParseVersion(page.tools)),
                         Pkg(<<"l", "t", "t", "n", "g", "-", "u", "s", "t">>, ParseVersion(page.ust)),
                         Pkg(<<"l", "t", "t", "n", "g", "-", "m", "o", "d", "u", "l", "e", "s">>, ParseVersion(page.modules))>>])

(***************************************************************************)
(* list.sort(key=...): a stable insertion by the key, a function of the    *)
(* elements.                                                               *)
(***************************************************************************)
SortBy(list, key) ==
  LET insert(sorted, d) ==
        LET before == {i \in 1..Len(sorted) : ~StrLess(key[d], key[sorted[i]])}
            n      == Cardinality(before)
        IN SubSeq(sorted, 1, n) \o <<d>> \o SubSeq(sorted, n + 1, Len(sorted))
      f[i \in 0..Len(list)] ==
        IF i = 0 THEN <<>> ELSE insert(f[i - 1], list[i])
  IN f[Len(list)]

SortedByLowerName(distros_) ==
  SortBy(distros_, [distro \in Range(distros_) |-> Lower(distro.name)])

\* distros.sort(key=lambda distro: distro.name)
SortedByName(distros_) ==
  SortBy(distros_, [distro \in Range(distros_) |-> distro.name])

(***************************************************************************)
(* The report of __main__.                                                 *)
(***************************************************************************)
\* _DistroVersion.pkg(name): the loop reads pkg.name of every entry up to
\* the first one named name, and None has no attribute name.
DistroVersionPkg(distro_version, name) ==
  LET pkgs == distro_version.pkgs
      stop == {i \in 1..Len(pkgs) :
                 IF pkgs[i] = None THEN TRUE ELSE pkgs[i].name = name}
  IN IF stop = {} THEN Ok(None)
     ELSE LET i == CHOOSE i \in stop : \A j \in stop : i <= j
          IN IF pkgs[i] = None THEN Raised ELSE Ok(pkgs[i])

\* distro_version_pkg_version(distro_version, pkg_names): RaiseStr for the
\* exception.
distro_version_pkg_version(distro_version, pkg_names) ==
  LET loop[i \in 0..Len(pkg_names)] ==
        IF i = 0 THEN Ok(None)
        ELSE IF loop[i - 1].raised THEN Raised
        ELSE IF loop[i - 1].value # None THEN loop[i - 1]
        ELSE DistroVersionPkg(distro_version, pkg_names[i])
      pkg == loop[Len(pkg_names)]
  IN IF pkg.raised THEN RaiseStr
     ELSE IF pkg.value # None THEN pkg.value.version
     ELSE <<>>

ToolsNames == << <<"l", "t", "t", "n", "g", "-", "t", "o", "o", "l", "s">>, <<"l", "t", "t", "-", "c", "o", "n", "t", "r", "o", "l">> >>

UstNames == << <<"l", "t", "t", "n", "g", "-", "u", "s", "t">>, <<"u", "s", "t">>, <<"l", "t", "t", "n", "g", "-", "l", "i", "b", "u", "s", "t">> >>

ModulesNames == << <<"l", "t", "t", "n", "g", "-", "m", "o", "d", "u", "l", "e", "s">> >>

\* The row table.add_row() gets for one version of one distribution.
Row(distro, distro_version) ==
  [label   |-> distro.name \o <<" ">> \o distro_version.version,
   columns |-> <<distro_version_pkg_version(distro_version, ToolsNames),
                 distro_version_pkg_version(distro_version, UstNames),
                 distro_version_pkg_version(distro_version, ModulesNames)>>]

\* Every row of the table.  The order of the rows is not modelled: the
\* table is the set of its rows.
Rows(distros_) ==
  UNION {{Row(distros_[i], distros_[i].versions[j]) :
            j \in 1..Len(distros_[i].versions)} : i \in 1..Len(distros_)}

(***************************************************************************)
(* The upstream services a run can meet.                                   *)
(***************************************************************************)
Record(repo, visiblename, version) ==
  [repo |-> repo, visiblename |-> visiblename, version |-> version]

\* Repology records of the three projects: every builder's pattern, shared
\* buckets, the Debian sid channel, an identifier no pattern matches,
\* versions that do not parse.
ToolsRecords ==
  { Record(<<"a", "l", "p", "i", "n", "e", "_", "3", "_", "1", "4">>, <<"l", "t", "t", "n", "g", "-", "t", "o", "o", "l", "s">>, <<"2", ".", "1", "3", ".", "0">>),
    Record(<<"a", "r", "c", "h">>, <<"l", "t", "t", "n", "g", "-", "t", "o", "o", "l", "s">>, <<"2", ".", "1", "3", ".", "0">>),
    Record(<<"d", "e", "b", "i", "a", "n", "_", "1", "1">>, <<"l", "t", "t", "n", "g", "-", "t", "o", "o", "l", "s">>, <<"2", ".", "1", "3", ".", "0">>),
    Record(<<"d", "e", "b", "i", "a", "n", "_", "s", "i", "d">>, <<"l", "t", "t", "n", "g", "-", "t", "o", "o", "l", "s">>, <<"2", ".", "1", "4", ".", "0">>),
    Record(<<"o", "p", "e", "n", "s", "u", "s", "e", "_", "l", "e", "a", "p", "_", "1", "5", "_", "3">>, <<"l", "t", "t", "-", "c", "o", "n", "t", "r", "o", "l">>, <<"2", ".", "1", "2", ".", "0">>),
    Record(<<"x", "d", "e", "b", "i", "a", "n", "_", "1", "1">>, <<"l", "t", "t", "n", "g", "-", "t", "o", "o", "l", "s">>, <<"2", ".", "x">>) }

UstRecords ==
  { Record(<<"a", "l", "p", "i", "n", "e", "_", "3", "_", "1", "4">>, <<"l", "t", "t", "n", "g", "-", "u", "s", "t">>, <<"v", "2", ".", "0", "1", "3">>),
    Record(<<"d", "e", "b", "i", "a", "n", "_", "1", "2">>, <<"u", "s", "t">>, <<"2", ".", "x">>),
    Record(<<"d", "e", "b", "i", "a", "n", "_", "1", "1">>, <<"u", "s", "t">>, <<"2", ".", "1", "2", ".", "1">>),
    Record(<<"u", "b", "u", "n", "t", "u", "_", "2", "0", "_", "0", "4">>, <<"l", "t", "t", "n", "g", "-", "u", "s", "t">>, <<"2", ".", "1", "3", ".", "0">>) }

ModulesRecords ==
  { Record(<<"f", "e", "d", "o", "r", "a", "_", "3", "4">>, <<"l", "t", "t", "n", "g", "-", "m", "o", "d", "u", "l", "e", "s">>, <<"2", ".", "1", "3", ".", "0">>),
    Record(<<"d", "e", "b", "i", "a", "n", "_", "1", "2">>, <<"l", "t", "t", "n", "g", "-", "m", "o", "d", "u", "l", "e", "s">>, <<"2", ".", "1", "1", ".", "2">>) }

SeqsUpTo(S, n) == UNION {[1..k -> S] : k \in 0..n}

\* The answers of repology.org: the three project lists, or a failed GET.
RepologyJson(tools, ust, modules) ==
  [status |-> "json", tools |-> tools, ust |-> ust, modules |-> modules]

RepologyError ==
  [status |-> "error", tools |-> <<>>, ust |-> <<>>, modules |-> <<>>]

RepologyWorlds ==
  {RepologyError} \cup
  { RepologyJson(w[1], w[2], w[3]) :
      w \in { w \in SeqsUpTo(ToolsRecords, MaxRecords)
                      \X SeqsUpTo(UstRecords, MaxRecords)
                      \X SeqsUpTo(ModulesRecords, MaxRecords) :
                 Len(w[1]) + Len(w[2]) + Len(w[3]) <= MaxRecords } }

DefaultRepology ==
  RepologyJson(<< Record(<<"d", "e", "b", "i", "a", "n", "_", "1", "1">>, <<"l", "t", "t", "n", "g", "-", "t", "o", "o", "l", "s">>, <<"2", ".", "1", "3", ".", "0">>),
                  Record(<<"d", "e", "b", "i", "a", "n", "_", "s", "i", "d">>, <<"l", "t", "t", "n", "g", "-", "t", "o", "o", "l", "s">>, <<"2", ".", "1", "4", ".", "0">>) >>,
               << Record(<<"a", "l", "p", "i", "n", "e", "_", "3", "_", "1", "4">>, <<"l", "t", "t", "n", "g", "-", "u", "s", "t">>, <<"v", "2", ".", "0", "1", "3">>) >>,
               << Record(<<"f", "e", "d", "o", "r", "a", "_", "3", "4">>, <<"l", "t", "t", "n", "g", "-", "m", "o", "d", "u", "l", "e", "s">>, <<"2", ".", "1", "3", ".", "0">>) >>)

\* A recipe file: the GET fails, or the body says 'Invalid branch', or it
\* holds the LTTNG_..._VERSION line's value (NoneStr: no such line).
MkError == [status |-> "error", invalid_branch |-> FALSE, version_field |-> NoneStr]

MkInvalidBranch ==
  [status |-> "text", invalid_branch |-> TRUE, version_field |-> NoneStr]

Mk(version_field) ==
  [status |-> "text", invalid_branch |-> FALSE, version_field |-> version_field]

Branch(tools, ust, modules) ==
  [name \in BuildrootPkgNames |->
     IF name = <<"l", "t", "t", "n", "g", "-", "t", "o", "o", "l", "s">> THEN tools
     ELSE IF name = <<"l", "t", "t", "n", "g", "-", "l", "i", "b", "u", "s", "t">> THEN ust ELSE modules]

\* Branches the builder keeps: lttng-tools is there.
KeptBranches ==
  { Branch(Mk(<<"2", ".", "1", "3", ".", "0">>), Mk(<<"2", ".", "1", "2", ".", "1">>), Mk(<<"2", ".", "1", "1", ".", "2">>)),
    Branch(Mk(<<"2", ".", "1", "3", ".", "0">>), MkInvalidBranch, Mk(<<"2", ".", "1", "1", ".", "2">>)) }

\* Branches that end the loop, by its break or by an exception.
LastBranches ==
  { Branch(MkInvalidBranch, MkInvalidBranch, MkInvalidBranch),
    Branch(MkInvalidBranch, Mk(<<"2", ".", "1", "2", ".", "1">>), Mk(<<"2", ".", "1", "1", ".", "2">>)),
    Branch(Mk(NoneStr), Mk(<<"2", ".", "1", "2", ".", "1">>), Mk(<<"2", ".", "1", "1", ".", "2">>)),
    Branch(Mk(<<"2", ".", "x">>), Mk(<<"2", ".", "1", "2", ".", "1">>), Mk(<<"2", ".", "1", "1", ".", "2">>)),
    Branch(MkError, Mk(<<"2", ".", "1", "2", ".", "1">>), Mk(<<"2", ".", "1", "1", ".", "2">>)),
    Branch(Mk(<<"2", ".", "1", "3", ".", "0">>), Mk(NoneStr), Mk(<<"2", ".", "1", "1", ".", "2">>)),
    Branch(Mk(<<"2", ".", "1", "3", ".", "0">>), Mk(<<"2", ".", "1", "2", ".", "1">>), Mk(<<"2", ".", "x">>)) }

\* The answers of git.buildroot.net: up to MaxProbes kept branches, then a
\* last branch or none; every other branch name is answered by elsewhere,
\* 'Invalid branch' or, for an upstream that never says so, a recipe.
BuildrootWorlds ==
  { [branches |-> kept \o last, elsewhere |-> elsewhere] :
      <<kept, last, elsewhere>> \in
        { <<kept, last, elsewhere>> \in
            SeqsUpTo(KeptBranches, MaxProbes)
              \X ({<<>>} \cup {<<b>> : b \in LastBranches})
              \X {MkInvalidBranch, Mk(<<"2", ".", "1", "3", ".", "0">>)} :
            last # <<>> => elsewhere = MkInvalidBranch } }

DefaultBuildroot ==
  [branches  |-> << Branch(Mk(<<"2", ".", "1", "3", ".", "0">>), Mk(<<"2", ".", "1", "2", ".", "1">>), Mk(<<"2", ".", "1", "1", ".", "2">>)) >>,
   elsewhere |-> MkInvalidBranch]

\* The values of the branch selector's options.
OptionPool ==
  { <<"z", "e", "u", "s">>, <<"s", "u", "m", "o">>, <<"3", ".", "1", ".", "4">>, <<"x", "s", "u", "m", "o">>, <<"s", "u", "m", "o", "x">>, <<"a", "-", "n", "e", "x", "t">> }

\* A recipe directory listing: the GET fails, or for each product the
\* version its file name holds (NoneStr: no such file name).
TreeError == [status |-> "error", tools |-> NoneStr, ust |-> NoneStr, modules |-> NoneStr]

Tree(tools, ust, modules) ==
  [status |-> "html", tools |-> tools, ust |-> ust, modules |-> modules]

GoodTree == Tree(<<"2", ".", "1", "3", ".", "0">>, <<"2", ".", "1", "2", ".", "1">>, <<"2", ".", "1", "1", ".", "2">>)

TreePool ==
  { GoodTree, TreeError, Tree(NoneStr, <<"2", ".", "1", "2", ".", "1">>, <<"2", ".", "1", "1", ".", "2">>),
    Tree(<<"2", ".", "1", "3", ".", "0">>, <<"2", ".", ".", "1">>, <<"2", ".", "1", "1", ".", "2">>), Tree(<<"2", ".", "1", "3", ".", "0">>, <<"2", ".", "1", "2", ".", "1">>, NoneStr) }

\* The landing page: the GET fails, or the document has no element with
\* id 'cgit', or it lists the options.
Listing(options) == [status |-> "html", cgit |-> TRUE, options |-> options]

ListingError == [status |-> "error", cgit |-> FALSE, options |-> <<>>]

ListingNoCgit == [status |-> "html", cgit |-> FALSE, options |-> <<>>]

\* The answers of git.openembedded.org: any option list over sound
\* listings, or a fixed option list over any listings of its two valid
\* branches, or no usable landing page.
OpenembeddedWorlds ==
  { [listing |-> Listing(options), tree |-> [v \in OptionPool |-> GoodTree]] :
      options \in SeqsUpTo(OptionPool, MaxOptions) }
  \cup
  { [listing |-> Listing(<< <<"s", "u", "m", "o">>, <<"z", "e", "u", "s">>, <<"x", "s", "u", "m", "o">> >>),
     tree    |-> [v \in OptionPool |->
                    IF v = <<"z", "e", "u", "s">> THEN a ELSE IF v = <<"x", "s", "u", "m", "o">> THEN b ELSE GoodTree]] :
      a \in TreePool, b \in TreePool }
  \cup
  { [listing |-> l, tree |-> [v \in OptionPool |-> GoodTree]] :
      l \in {ListingError, ListingNoCgit} }

DefaultOpenembedded ==
  [listing |-> Listing(<< <<"3", ".", "1", ".", "4">>, <<"z", "e", "u", "s">> >>),
   tree    |-> [v \in OptionPool |-> GoodTree]]

(***************************************************************************)
(* The run: distros(), then the table of __main__.                         *)
(***************************************************************************)
NotReturned == [returned |-> FALSE, value |-> <<>>]

NoTable == [state |-> "none", rows |-> {}]

Init ==
  /\ \/ /\ repology \in RepologyWorlds
        /\ buildroot_git = DefaultBuildroot
        /\ openembedded = DefaultOpenembedded
     \/ /\ repology = DefaultRepology
        /\ buildroot_git \in BuildrootWorlds
        /\ openembedded = DefaultOpenembedded
     \/ /\ repology = DefaultRepology
        /\ buildroot_git = DefaultBuildroot
        /\ openembedded \in OpenembeddedWorlds
  /\ pc = "repology"
  /\ repology_repos = <<>>
  /\ distros = <<>>
  /\ yr = 0
  /\ month = 0
  /\ distro_versions = <<>>
  /\ valid_versions = <<>>
  /\ result = NotReturned
  /\ table = NoTable
  /\ invoked = <<>>
  /\ fetched = <<>>

\* _repology_repos(): the three project lists, concatenated.
RepologyRepos ==
  /\ pc = "repology"
  /\ IF repology.status = "error"
     THEN pc' = "aborted" /\ UNCHANGED repology_repos
     ELSE /\ repology_repos' = repology.tools \o repology.ust \o repology.modules
          /\ pc' = "alpine"
  /\ UNCHANGED <<upstream, distros, yr, month, distro_versions, valid_versions,
                 result, table, invoked, fetched>>

\* distros.append(builder(repology_repos)), for a record-filtering builder.
AppendDistro(at, then, builder, distro) ==
  /\ pc = at
  /\ invoked' = Append(invoked, builder)
  /\ IF distro.raised
     THEN pc' = "aborted" /\ UNCHANGED distros
     ELSE pc' = then /\ distros' = Append(distros, distro.value)
  /\ UNCHANGED <<upstream, repology_repos, yr, month, distro_versions,
                 valid_versions, result, table, fetched>>

AlpineDistro ==
  AppendDistro("alpine", "arch", "_alpine_distro", alpine_distro(repology_repos))

ArchDistro ==
  AppendDistro("arch", "buildroot", "_arch_distro", arch_distro(repology_repos))

\* _buildroot_distro() up to its loop.
BuildrootDistro ==
  /\ pc = "buildroot"
  /\ invoked' = Append(invoked, "_buildroot_distro")
  /\ yr' = 2019
  /\ month' = 2
  /\ distro_versions' = <<>>
  /\ pc' = "buildroot_loop"
  /\ UNCHANGED <<upstream, repology_repos, distros, valid_versions, result,
                 table, fetched>>

\* One turn of the loop of _buildroot_distro(); its break returns the
\* _Distro to distros().  Once MaxProbes versions are kept the model stops
\* recording: the loop goes on, the list, the year and the log stand still.
BuildrootProbe ==
  /\ pc = "buildroot_loop"
  /\ \E br_version \in {FormatBrVersion(yr, month)} :
       \E dist_version \in {buildroot_distro_version(br_version)} :
         LET recorded == Len(distro_versions) < MaxProbes
         IN /\ fetched' = IF recorded \/ dist_version.raised
                                       \/ dist_version.value = None
                          THEN fetched \o buildroot_requests(br_version)
                          ELSE fetched
            /\ IF dist_version.raised
               THEN /\ pc' = "aborted"
                    /\ UNCHANGED <<distros, yr, month, distro_versions>>
               ELSE IF dist_version.value = None
               THEN /\ distros' = Append(distros, Distro(<<"B", "u", "i", "l", "d", "r", "o", "o", "t">>, distro_versions))
                    /\ pc' = "debian"
                    /\ UNCHANGED <<yr, month, distro_versions>>
               ELSE /\ distro_versions' =
                         IF recorded
                         THEN Append(distro_versions, dist_version.value)
                         ELSE distro_versions
                    /\ yr' = IF recorded THEN NextCandidate(yr, month)[1] ELSE yr
                    /\ month' = NextCandidate(yr, month)[2]
                    /\ UNCHANGED <<pc, distros>>
  /\ UNCHANGED <<upstream, repology_repos, valid_versions, result, table, invoked>>

DebianDistro ==
  AppendDistro("debian", "fedora", "_debian_distro", debian_distro(repology_repos))

FedoraDistro ==
  AppendDistro("fedora", "opensuse", "_fedora_distro", fedora_distro(repology_repos))

OpensuseDistro ==
  AppendDistro("opensuse", "ubuntu", "_opensuse_distro", opensuse_distro(repology_repos))

UbuntuDistro ==
  AppendDistro("ubuntu", "yocto", "_ubuntu_distro", ubuntu_distro(repology_repos))

\* _yocto_distro() up to its second loop: the landing page and the denylist.
YoctoDistro ==
  /\ pc = "yocto"
  /\ invoked' = Append(invoked, "_yocto_distro")
  /\ fetched' = Append(fetched, [name |-> <<"o", "p", "e", "n", "e", "m", "b", "e", "d", "d", "e", "d", "-", "c", "o", "r", "e">>, h |-> <<>>])
  /\ distro_versions' = <<>>
  /\ IF openembedded.listing.status = "error" \/ ~openembedded.listing.cgit
     THEN pc' = "aborted" /\ UNCHANGED valid_versions
     ELSE /\ valid_versions' = yocto_valid_versions(openembedded.listing.options)
          /\ pc' = "yocto_loop"
  /\ UNCHANGED <<upstream, repology_repos, distros, yr, month, result, table>>

\* One turn of the loop over valid_versions.
YoctoVersion ==
  /\ pc = "yocto_loop"
  /\ Len(distro_versions) < Len(valid_versions)
  /\ LET version      == valid_versions[Len(distro_versions) + 1]
         dist_version == yocto_distro_version(version)
     IN /\ fetched' = Append(fetched, [name |-> <<"l", "t", "t", "n", "g">>, h |-> version])
        /\ IF dist_version.raised
           THEN pc' = "aborted" /\ UNCHANGED distro_versions
           ELSE /\ distro_versions' = Append(distro_versions, dist_version.value)
                /\ UNCHANGED pc
  /\ UNCHANGED <<upstream, repology_repos, distros, yr, month, valid_versions,
                 result, table, invoked>>

\* The end of _yocto_distro() and of distros(): the last append, the sort,
\* the return.
DistrosReturn ==
  /\ pc = "yocto_loop"
  /\ Len(distro_versions) = Len(valid_versions)
  /\ distros' = SortedByName(Append(distros, Distro(<<"Y", "o", "c", "t", "o">>, distro_versions)))
  /\ result' = [returned |-> TRUE, value |-> distros']
  /\ pc' = "done"
  /\ UNCHANGED <<upstream, repology_repos, yr, month, distro_versions,
                 valid_versions, table, invoked, fetched>>

\* __main__ after distros(): the rows of the table, unless a column lookup
\* raises.
Report ==
  /\ pc = "done"
  /\ LET rows == Rows(result.value)
     IN table' = IF \E r \in rows : \E c \in 1..3 : r.columns[c] = RaiseStr
                 THEN [state |-> "crashed", rows |-> {}]
                 ELSE [state |-> "printed", rows |-> rows]
  /\ pc' = "reported"
  /\ UNCHANGED <<upstream, repology_repos, distros, yr, month, distro_versions,
                 valid_versions, result, invoked, fetched>>

Next ==
  \/ RepologyRepos
  \/ AlpineDistro
  \/ ArchDistro
  \/ BuildrootDistro
  \/ BuildrootProbe
  \/ DebianDistro
  \/ FedoraDistro
  \/ OpensuseDistro
  \/ UbuntuDistro
  \/ YoctoDistro
  \/ YoctoVersion
  \/ DistrosReturn
  \/ Report

Spec == Init /\ [][Next]_vars

\* The interpreter runs the next statement: no step waits forever.
FairSpec == Spec /\ WF_vars(BuildrootProbe)

(***************************************************************************)
(* Properties.                                                             *)
(***************************************************************************)
RecordBuilders ==
  << "_alpine_distro", "_arch_distro", "_debian_distro", "_fedora_distro",
     "_opensuse_distro", "_ubuntu_distro" >>

BuilderOrder ==
  << "_alpine_distro", "_arch_distro", "_buildroot_distro", "_debian_distro",
     "_fedora_distro", "_opensuse_distro", "_ubuntu_distro", "_yocto_distro" >>

RepoVersionOf(builder, repo) ==
  CASE builder = "_alpine_distro"   -> alpine_repo_version(repo)
    [] builder = "_arch_distro"     -> arch_repo_version(repo)
    [] builder = "_debian_distro"   -> debian_repo_version(repo)
    [] builder = "_fedora_distro"   -> fedora_repo_version(repo)
    [] builder = "_opensuse_distro" -> opensuse_repo_version(repo)
    [] builder = "_ubuntu_distro"   -> ubuntu_repo_version(repo)

DistroNameOf(builder) ==
  CASE builder = "_alpine_distro"    -> <<"A", "l", "p", "i", "n", "e", " ", "L", "i", "n", "u", "x">>
    [] builder = "_arch_distro"      -> <<"A", "r", "c", "h", " ", "L", "i", "n", "u", "x">>
    [] builder = "_buildroot_distro" -> <<"B", "u", "i", "l", "d", "r", "o", "o", "t">>
    [] builder = "_debian_distro"    -> <<"D", "e", "b", "i", "a", "n">>
    [] builder = "_fedora_distro"    -> <<"F", "e", "d", "o", "r", "a">>
    [] builder = "_opensuse_distro"  -> <<"o", "p", "e", "n", "S", "U", "S", "E", " ", "L", "e", "a", "p">>
    [] builder = "_ubuntu_distro"    -> <<"U", "b", "u", "n", "t", "u">>
    [] builder = "_yocto_distro"     -> <<"Y", "o", "c", "t", "o">>

\* The distributions built so far that builder built.
BuiltBy(builder) ==
  {distros[i] : i \in {i \in 1..Len(distros) : distros[i].name = DistroNameOf(builder)}}

Labels(distro) == [j \in 1..Len(distro.versions) |-> distro.versions[j].version]

IsPrefix(s, t) == Len(s) <= Len(t) /\ \A i \in 1..Len(s) : s[i] = t[i]

\* C1: in every Distribution a builder returned, no two DistributionVersion
\* entries have the same version label.
C1_UniqueLabels ==
  \A i \in 1..Len(distros) :
    \A j, k \in 1..Len(distros[i].versions) :
      distros[i].versions[j].version = distros[i].versions[k].version => j = k

\* The packages the records labelled label by builder's matcher give, one
\* per record and in input order.
MatchedPkgs(builder, label) ==
  LET matched == SelectSeq(repology_repos,
                           LAMBDA r : RepoVersionOf(builder, r) = label)
  IN [i \in 1..Len(matched) |->
        Pkg(matched[i].visiblename, ParseVersion(matched[i].version))]

\* C2: the buckets a record-filtering builder returns are labelled by the
\* labels its matcher yields, the bucket labelled L holds exactly the
\* packages of the records the matcher labels L, one per record and in input
\* order, with the record's visible name and parsed version; a record
\* without label adds nothing and no bucket is empty.
C2_BucketsHoldMatchedRecords ==
  \A b \in Range(RecordBuilders) : \A d \in BuiltBy(b) :
    /\ Range(Labels(d)) =
         {RepoVersionOf(b, r) : r \in Range(repology_repos)} \ {NoneStr}
    /\ \A j \in 1..Len(d.versions) :
         /\ d.versions[j].pkgs = MatchedPkgs(b, d.versions[j].version)
         /\ d.versions[j].pkgs # <<>>
    /\ \A j, k \in 1..Len(d.versions) :
         d.versions[j].version = d.versions[k].version => j = k

\* C2's case: Debian built from three records, two of them in one bucket
\* and one without label between them.
C2_Witness ==
  \E d \in BuiltBy("_debian_distro") :
    /\ Len(repology_repos) = 3
    /\ debian_repo_version(repology_repos[2]) = NoneStr
    /\ Len(d.versions) = 1
    /\ Len(d.versions[1].pkgs) = 2

DebianScenario ==
  << Record(<<"d", "e", "b", "i", "a", "n", "_", "1", "1">>, <<"l", "t", "t", "n", "g", "-", "t", "o", "o", "l", "s">>, <<"2", ".", "1", "3", ".", "0">>),
     Record(<<"d", "e", "b", "i", "a", "n", "_", "s", "i", "d">>, <<"l", "t", "t", "n", "g", "-", "t", "o", "o", "l", "s">>, <<"2", ".", "1", "4", ".", "0">>) >>

\* C3: the Debian builder's output has no DistributionVersion labelled
\* "sid"; a record "debian_X" gives a DistributionVersion labelled X exactly
\* when X is not "sid"; the records [debian_11 / lttng-tools / 2.13.0,
\* debian_sid / lttng-tools / 2.14.0] give the single entry "11".
C3_DebianExcludesSid ==
  \A d \in BuiltBy("_debian_distro") :
    /\ <<"s", "i", "d">> \notin Range(Labels(d))
    /\ \A r \in Range(repology_repos) :
         (Len(r.repo) > 7 /\ SubSeq(r.repo, 1, 7) = <<"d", "e", "b", "i", "a", "n", "_">>)
           => LET X == SubSeq(r.repo, 8, Len(r.repo))
              IN X \in Range(Labels(d)) <=> X # <<"s", "i", "d">>
    /\ repology_repos = DebianScenario
         => d.versions = << [version |-> <<"1", "1">>,
                             pkgs |-> << Pkg(<<"l", "t", "t", "n", "g", "-", "t", "o", "o", "l", "s">>, <<"2", ".", "1", "3", ".", "0">>) >>] >>

\* C3's case: Debian built from the two records of the scenario.
C3_Witness ==
  /\ repology_repos = DebianScenario
  /\ BuiltBy("_debian_distro") # {}

IsToolsGet(f) == f.name = <<"l", "t", "t", "n", "g", "-", "t", "o", "o", "l", "s">>

\* The labels of the branches whose lttng-tools recipe was requested.
ProbedBranches ==
  LET gets == SelectSeq(fetched, IsToolsGet)
  IN [i \in 1..Len(gets) |-> gets[i].h]

\* What upstream answers for lttng-tools on the i-th quarterly branch.
UpstreamTools(i) ==
  IF i <= Len(buildroot_git.branches)
  THEN buildroot_git.branches[i][<<"l", "t", "t", "n", "g", "-", "t", "o", "o", "l", "s">>]
  ELSE buildroot_git.elsewhere

\* k: lttng-tools first does not exist upstream on the k-th candidate.
FirstAbsentIs(k) ==
  /\ UpstreamTools(k).status = "text" /\ UpstreamTools(k).invalid_branch
  /\ \A i \in 1..(k - 1) :
       ~(UpstreamTools(i).status = "text" /\ UpstreamTools(i).invalid_branch)

\* C4: when lttng-tools first does not exist upstream on the k-th candidate,
\* the Buildroot builder returns k-1 versions labelled 2019.02, 2019.05,
\* 2019.08, 2019.11, 2020.02, ... and has requested the first k candidates
\* and no other; until then the kept versions and the requested branches
\* are the first ones of that sequence, and at most k are requested.
C4_QuarterlyProbe ==
  /\ pc = "buildroot_loop" /\ Len(distro_versions) < MaxProbes
       => /\ [j \in 1..Len(distro_versions) |-> distro_versions[j].version]
               = SubSeq(BranchNames, 1, Len(distro_versions))
          /\ FormatBrVersion(yr, month) = BranchNames[Len(distro_versions) + 1]
  /\ \A k \in 1..(MaxProbes + 1) :
       FirstAbsentIs(k)
         => /\ IsPrefix(ProbedBranches, SubSeq(BranchNames, 1, k))
            /\ \A d \in BuiltBy("_buildroot_distro") :
                 /\ Labels(d) = SubSeq(BranchNames, 1, k - 1)
                 /\ ProbedBranches = SubSeq(BranchNames, 1, k)
  /\ FirstAbsentIs(5)
       => \A d \in BuiltBy("_buildroot_distro") : Len(d.versions) = 4

\* C4's case: absent on the 5th candidate (2020.02, after the year
\* changed), four versions returned.
C4_Witness ==
  /\ FirstAbsentIs(5)
  /\ \E d \in BuiltBy("_buildroot_distro") : Len(d.versions) = 4
  /\ ProbedBranches[5] = <<"2", "0", "2", "0", ".", "0", "2">>

Codenames ==
  { <<"d", "a", "i", "s", "y">>, <<"d", "a", "n", "n", "y">>, <<"d", "e", "n", "z", "i", "l">>, <<"d", "i", "z", "z", "y">>, <<"d", "o", "r", "a">>, <<"d", "y", "l", "a", "n">>, <<"f", "i", "d", "o">>,
    <<"j", "e", "t", "h", "r", "o">>, <<"k", "r", "o", "g", "o", "t", "h">>, <<"m", "a", "s", "t", "e", "r">>, <<"m", "o", "r", "t", "y">>, <<"p", "y", "r", "o">>, <<"r", "o", "c", "k", "o">>, <<"s", "u", "m", "o">> }

StartsWith(s, p) == Len(p) <= Len(s) /\ SubSeq(s, 1, Len(p)) = p

Contains(s, p) ==
  \E i \in 1..(Len(s) - Len(p) + 1) : SubSeq(s, i, i + Len(p) - 1) = p

Denied(value) ==
  \/ Len(value) > 0 /\ value[1] \in Range(Digits)
  \/ Contains(value, <<"-", "n", "e", "x", "t">>)
  \/ \E c \in Codenames : StartsWith(value, c)

ListingRead ==
  /\ "_yocto_distro" \in Range(invoked)
  /\ openembedded.listing.status = "html"
  /\ openembedded.listing.cgit

\* C5: the Yocto enumeration keeps, in document order, exactly the option
\* values that do not begin with a digit, do not contain "-next" and do not
\* begin with a listed codename; "3.1.4" and "sumo" are dropped, "zeus" is
\* kept, and so is a value that holds a codename after its first character.
C5_DenylistAnchored ==
  ListingRead =>
    /\ valid_versions =
         SelectSeq(openembedded.listing.options, LAMBDA v : ~Denied(v))
    /\ <<"3", ".", "1", ".", "4">> \notin Range(valid_versions)
    /\ <<"s", "u", "m", "o">> \notin Range(valid_versions)
    /\ \A v \in {<<"z", "e", "u", "s">>, <<"x", "s", "u", "m", "o">>} :
         v \in Range(openembedded.listing.options) => v \in Range(valid_versions)

\* C5's case: the selector lists 3.1.4, sumo and zeus, and zeus alone is
\* kept.
C5_Witness ==
  /\ ListingRead
  /\ openembedded.listing.options = << <<"3", ".", "1", ".", "4">>, <<"s", "u", "m", "o">>, <<"z", "e", "u", "s">> >>
  /\ valid_versions = << <<"z", "e", "u", "s">> >>

SortedNames ==
  << <<"A", "l", "p", "i", "n", "e", " ", "L", "i", "n", "u", "x">>, <<"A", "r", "c", "h", " ", "L", "i", "n", "u", "x">>, <<"B", "u", "i", "l", "d", "r", "o", "o", "t">>, <<"D", "e", "b", "i", "a", "n">>, <<"F", "e", "d", "o", "r", "a">>,
     <<"U", "b", "u", "n", "t", "u">>, <<"Y", "o", "c", "t", "o">>, <<"o", "p", "e", "n", "S", "U", "S", "E", " ", "L", "e", "a", "p">> >>

\* C6: distros() calls the eight builders once each in the order Alpine,
\* Arch, Buildroot, Debian, Fedora, openSUSE, Ubuntu, Yocto, a builder
\* being called only when the ones before it have returned, and returns
\* eight distributions ordered by the code points of their names, so that
\* "openSUSE Leap" is last.
C6_OrderOfBuildersAndResult ==
  /\ IsPrefix(invoked, BuilderOrder)
  /\ \A i \in 1..Len(invoked) : \A j \in 1..(i - 1) :
       BuiltBy(invoked[j]) # {} \/ pc = "aborted"
  /\ Len(distros) <= Len(invoked)
  /\ result.returned
       => /\ invoked = BuilderOrder
          /\ [i \in 1..Len(result.value) |-> result.value[i].name] = SortedNames

\* C6's case: distros() has returned.
C6_Witness == pc = "done" /\ result.returned /\ Len(result.value) = 8

\* The request f of a probe builder failed: the GET, or the parse of its
\* answer.
BadVersionText(t) == t = NoneStr \/ ParseVersion(t) = RaiseStr

FetchFailed(f) ==
  IF f.name \in BuildrootPkgNames
  THEN LET mk == BuildrootGet(f.name, f.h)
       IN \/ mk.status = "error"
          \/ ~mk.invalid_branch /\ BadVersionText(mk.version_field)
  ELSE IF f.name = <<"l", "t", "t", "n", "g">>
  THEN LET page == openembedded.tree[f.h]
       IN \/ page.status = "error"
          \/ BadVersionText(page.tools)
          \/ BadVersionText(page.ust)
          \/ BadVersionText(page.modules)
  ELSE openembedded.listing.status = "error" \/ ~openembedded.listing.cgit

\* The call of builder, which has been made, failed.
BuilderFailed(builder) ==
  IF builder \in Range(RecordBuilders)
  THEN \E r \in Range(repology_repos) :
         /\ RepoVersionOf(builder, r) # NoneStr
         /\ ParseVersion(r.version) = RaiseStr
  ELSE \E f \in Range(fetched) :
         /\ f.name \in BuildrootPkgNames <=> builder = "_buildroot_distro"
         /\ FetchFailed(f)

\* C7: once a fetch or a parse step has failed, the run is aborted:
\* distros() returns nothing, no table is made, and the builder that failed
\* is the last one called.
C7_FailFast ==
  /\ (pc # "repology" /\ repology.status = "error") => pc = "aborted"
  /\ \A i \in 1..Len(invoked) :
       BuilderFailed(invoked[i])
         => /\ pc = "aborted"
            /\ i = Len(invoked)
  /\ pc = "aborted"
       => /\ ~result.returned
          /\ table = NoTable
          /\ \/ repology.status = "error"
             \/ Len(invoked) > 0 /\ BuilderFailed(invoked[Len(invoked)])

\* C7's case: the Debian builder failed on a record whose version does not
\* parse, after three builders had returned.
C7_Witness ==
  /\ pc = "aborted"
  /\ Len(invoked) = 4
  /\ Len(distros) = 3
  /\ BuilderFailed("_debian_distro")

\* The first package of distro_version whose name is one of pkg_names.
FirstNamed(distro_version, pkg_names) ==
  LET present == SelectSeq(distro_version.pkgs, LAMBDA p : p # None)
      named   == SelectSeq(present, LAMBDA p : p.name \in Range(pkg_names))
  IN IF named = <<>> THEN <<>> ELSE named[1].version

\* C8: for every DistributionVersion a builder produced and each product,
\* the column lookup completes with the version of the first present
\* package named by the product's alias list, or the empty string; the
\* table is made, one row of three columns per DistributionVersion.
C8_ColumnLookupCompletes ==
  /\ result.returned =>
       \A i \in 1..Len(result.value) :
         \A j \in 1..Len(result.value[i].versions) :
           \A names \in {ToolsNames, UstNames, ModulesNames} :
             distro_version_pkg_version(result.value[i].versions[j], names)
               = FirstNamed(result.value[i].versions[j], names)
  /\ pc = "reported" => table.state = "printed"

\* C9: the Buildroot probing loop always terminates.
C9_ProbingTerminates == (pc = "buildroot_loop") ~> (pc # "buildroot_loop")

\* The package upstream's answer mk gives for name: None for a branch that
\* does not exist.
SlotOf(name, mk) ==
  IF mk.invalid_branch THEN None ELSE Pkg(name, ParseVersion(mk.version_field))

ThreeSlots(versions) ==
  \A j \in 1..Len(versions) :
    /\ Len(versions[j].pkgs) = 3
    /\ versions[j].pkgs[1] # None
    /\ versions[j].pkgs =
         << SlotOf(<<"l", "t", "t", "n", "g", "-", "t", "o", "o", "l", "s">>, BuildrootGet(<<"l", "t", "t", "n", "g", "-", "t", "o", "o", "l", "s">>, versions[j].version)),
            SlotOf(<<"l", "t", "t", "n", "g", "-", "l", "i", "b", "u", "s", "t">>, BuildrootGet(<<"l", "t", "t", "n", "g", "-", "l", "i", "b", "u", "s", "t">>, versions[j].version)),
            SlotOf(<<"l", "t", "t", "n", "g", "-", "m", "o", "d", "u", "l", "e", "s">>, BuildrootGet(<<"l", "t", "t", "n", "g", "-", "m", "o", "d", "u", "l", "e", "s">>, versions[j].version)) >>

\* C10: every version the Buildroot builder keeps has three package slots,
\* lttng-tools, lttng-libust, lttng-modules in this order; the first holds a
\* package and each of the others holds what upstream answered, None for a
\* product that does not exist there.
C10_ThreeSlots ==
  /\ pc = "buildroot_loop" => ThreeSlots(distro_versions)
  /\ \A d \in BuiltBy("_buildroot_distro") : ThreeSlots(d.versions)

\* C10's case: a returned Buildroot version whose lttng-libust does not
\* exist upstream.
C10_Witness ==
  \E d \in BuiltBy("_buildroot_distro") :
    \E j \in 1..Len(d.versions) :
      /\ d.versions[j].pkgs[2] = None
      /\ d.versions[j].pkgs[3] # None
=============================================================================
